---- MODULE Spec2Model ----
(***************************************************************************)
(* Client-side transport layer of the batch system: the connection table,  *)
(* pbs_connect2mom (src/lib/Libcmds/cnt2mom.c) and pbs_defschreply         *)
(* (src/lib/Libifl/pbsD_defschreply.c), modelled as state machines over    *)
(* the shared connection[] array.                                          *)
(*                                                                         *)
(* SpecConn : threads running pbs_connect2mom and releasing handles.       *)
(* SpecDef  : threads running pbs_defschreply on connected handles.        *)
(* SpecLib  : either of the two, for the properties common to both.        *)
(* SpecCred : decode_DIS_JobCred (src/lib/Libifl/dec_JobCred.c) on one     *)
(*            request.                                                     *)
(* SpecQd   : the qdisable command (src/cmds/qdisable.c) on one command    *)
(*            line.                                                        *)
(* SpecStage: parse_stage_name (src/lib/Libcmds/parse_stage.c) on one      *)
(*            string.                                                      *)
(* SpecList : parse_stage_list (same file) on one list.                    *)
(***************************************************************************)
EXTENDS Integers, Sequences, FiniteSets, TLC

(***************************************************************************)
(* Bounds of the model.                                                    *)
(***************************************************************************)
\* size of connection[] (slots 0 .. NCONNECTS-1); scaled down
NCONNECTS == 3
\* number of client threads
NThreads == 2
\* pbs_connect2mom calls started in one behaviour
MaxCalls == 3
\* pbs_defschreply calls started in one behaviour
MaxDefCalls == 2
\* longest file name and longest host name of a staging pair; scaled down
MAXPATHLEN == 1
PBS_MAXSERVERNAME == 2
\* longest string given to parse_stage_name
MaxPairLen == 6
\* most pieces (a pair or one character) a list given to parse_stage_list is
\* made of
MaxPieces == 3
\* bytes in front of the copy of the list that the model follows
MaxUnder == 2
\* most destinations on one qdisable command line
MaxDest == 2
\* longest credential payload, and largest credential type, on the stream
MaxCredLen == 2
MaxCredType == 1

(***************************************************************************)
(* Program constants.                                                      *)
(***************************************************************************)
PBSE_UNKJOBID == 15001
PBSE_IVALREQ == 15004
PBSE_BADHOST == 15008
PBSE_SYSTEM == 15010
PBSE_PROTOCOL == 15031
PBSE_NOCONNECTS == 15033
PBS_DIS_TCP_TIMEOUT_SHORT == 30
PBS_DIS_TCP_TIMEOUT_VLONG == 10800
\* codec (DIS) return codes
DIS_SUCCESS == 0
DIS_OVERFLOW == 1
DIS_NOMALLOC == 8
DIS_PROTO == 9
\* address families in a getaddrinfo() result
AF_INET == 2
AF_INET6 == 10
\* errno values of the failing system calls
EMFILE == 24
ECONNREFUSED == 111

NULL == "<NULL>"
NoThread == 0
NoRet == -2

Thread == 1 .. NThreads
Slot == 0 .. (NCONNECTS - 1)
\* descriptors of the table's sockets: 0, 1 and 2 are the standard streams
Fds == 3 .. (NCONNECTS + 1)

VARIABLES
    connection,       \* connection[NCONNECTS]: ch_inuse, ch_errno, ch_socket, ch_errtxt
    conntable_lock,   \* holder of the connection-table lock, or NoThread
    open_socks,       \* socket descriptors currently open in the process
    pbs_errno,        \* per-thread pbs_errno
    os_errno,         \* per-thread errno
    pbs_tcp_timeout,  \* codec I/O timeout
    pc,               \* position of each thread
    conn, sd,         \* locals of pbs_connect2mom, per thread
    owned,            \* handles returned by successful connects and not yet released
    ncalls,           \* pbs_connect2mom calls started
    run,              \* successful calls in a row since the start, or Broken
    call,             \* the call holding the table lock: what it saw when it took the lock
    ch_mutex,         \* holder of each slot's lock, or NoThread
    c, id,            \* arguments of pbs_defschreply, per thread
    sock,             \* local of pbs_defschreply, per thread
    cid,              \* number of the pbs_defschreply call each thread is in
    dcalls,           \* pbs_defschreply calls started
    wire,             \* per socket: the calls whose operations reached it, in order
    ops,              \* per thread: the wire operations of its call so far, in order
    dlast,            \* the pbs_defschreply call that returned last
    jc_stream,        \* decode_DIS_JobCred: the items the socket delivers, in order
    jc_reads,         \* decode_DIS_JobCred: the read calls made so far
    preq,             \* decode_DIS_JobCred: preq->rq_ind.rq_jobcred
    jc_pc,            \* decode_DIS_JobCred: position
    jc_ret,           \* decode_DIS_JobCred: return value
    qd_pc,            \* qdisable: position
    argv,             \* qdisable: the command line
    dest,             \* qdisable: main's index into argv
    ct,               \* qdisable: execute's connection handle
    qd_open,          \* qdisable: the handles of the connections that are open
    qd_log,           \* qdisable: the library calls made so far, in order
    exitstatus,       \* qdisable: exit status
    pair,             \* parse_stage_name: the string to parse
    local_name, host_name, remote_name,   \* parse_stage_name: the caller's buffers
    ps_ret,           \* parse_stage_name: return value
    ps_pc,            \* parse_stage_name: position
    list,             \* parse_stage_list: the caller's list
    psl_l,            \* parse_stage_list: l, the private copy of the list
    psl_c, psl_s,     \* parse_stage_list: c and s, as positions in the copy
    psl_b,            \* parse_stage_list: b, the last position the trimming read
    comma,            \* parse_stage_list: comma
    psl_wr,           \* parse_stage_list: highest index written in each buffer
    psl_ret,          \* parse_stage_list: return value
    psl_pc,           \* parse_stage_list: position
    routine           \* the routine the behaviour exercises

\* the variables only pbs_connect2mom and the release of a slot change
connOnly == <<conntable_lock, open_socks, os_errno, pbs_tcp_timeout, conn, sd, owned,
              ncalls, run, call>>
\* the variables only pbs_defschreply changes
defOnly == <<ch_mutex, c, id, sock, cid, dcalls, wire, ops, dlast>>

\* the variables of the routines that do not use the connection table
credOnly == <<jc_stream, jc_reads, preq, jc_pc, jc_ret>>
qdOnly == <<qd_pc, argv, dest, ct, qd_open, qd_log, exitstatus>>
stageOnly == <<pair, local_name, host_name, remote_name, ps_ret, ps_pc>>
listOnly == <<list, psl_l, psl_c, psl_s, psl_b, comma, psl_wr, psl_ret, psl_pc>>
cmdOnly == <<credOnly, qdOnly, stageOnly, listOnly, routine>>
\* the variables of the connection table and of the calls on it
libVars == <<connection, pbs_errno, pc, connOnly, defOnly>>

vars == <<libVars, cmdOnly>>
\* all but the variables of decode_DIS_JobCred, all but those of qdisable, and
\* all but those of parse_stage_name
notCred == <<libVars, qdOnly, stageOnly, listOnly, routine>>
notQd == <<libVars, credOnly, stageOnly, listOnly, routine>>
notStage == <<libVars, credOnly, qdOnly, listOnly, routine>>
\* all but the variables of parse_stage_list and the three buffers it hands to
\* parse_stage_name
notList == <<libVars, credOnly, qdOnly, routine, pair, ps_ret, ps_pc>>

(***************************************************************************)
(* The connection table.                                                   *)
(***************************************************************************)
\* connection[] has static storage: every field starts as zero / NULL
EmptySlot == [ch_inuse |-> 0, ch_errno |-> 0, ch_socket |-> 0, ch_errtxt |-> NULL]

InUseCount(tbl) == Cardinality({i \in 1 .. (NCONNECTS - 1) : tbl[i].ch_inuse = 1})
FreeCount(tbl) == Cardinality({i \in 1 .. (NCONNECTS - 1) : tbl[i].ch_inuse = 0})

\* FindSlot with the loop bound off by one: the last slot is never scanned
FindSlotOffByOne(tbl) ==
    IF \E i \in 1 .. (NCONNECTS - 2) : tbl[i].ch_inuse = 0
    THEN CHOOSE i \in 1 .. (NCONNECTS - 2) :
             /\ tbl[i].ch_inuse = 0
             /\ \A j \in 1 .. (i - 1) : tbl[j].ch_inuse # 0
    ELSE NCONNECTS

\* FindSlot scanning from the top of the table downwards
FindSlotHighest(tbl) ==
    IF \E i \in 1 .. (NCONNECTS - 1) : tbl[i].ch_inuse = 0
    THEN CHOOSE i \in 1 .. (NCONNECTS - 1) :
             /\ tbl[i].ch_inuse = 0
             /\ \A j \in (i + 1) .. (NCONNECTS - 1) : tbl[j].ch_inuse # 0
    ELSE NCONNECTS

\* for (conn=1; conn<NCONNECTS; conn++) { if (ch_inuse) continue; break; }
FindSlot(tbl) ==
    IF \E i \in 1 .. (NCONNECTS - 1) : tbl[i].ch_inuse = 0
    THEN CHOOSE i \in 1 .. (NCONNECTS - 1) :
             /\ tbl[i].ch_inuse = 0
             /\ \A j \in 1 .. (i - 1) : tbl[j].ch_inuse # 0
    ELSE NCONNECTS

\* if (!momhost) momhost = "localhost"; if (strlen(momhost) <= 0) momhost = "localhost";
DefaultHost(h) == IF h = NULL \/ h = "" THEN "localhost" ELSE h

\* first entry of the getaddrinfo() list whose ai_family is AF_INET; 0 when aip == NULL
FirstIPv4(pai) ==
    IF \E i \in 1 .. Len(pai) : pai[i] = AF_INET
    THEN CHOOSE i \in 1 .. Len(pai) :
             /\ pai[i] = AF_INET
             /\ \A j \in 1 .. (i - 1) : pai[j] # AF_INET
    ELSE 0

\* the codec error an encode routine reports when it fails
DisErr == {DIS_PROTO}

\* dis_emsg[rc], the message of a codec return code
DisEmsg(e) ==
    CASE e = DIS_OVERFLOW -> "dis_emsg[DIS_OVERFLOW]"
      [] e = DIS_NOMALLOC -> "dis_emsg[DIS_NOMALLOC]"
      [] e = DIS_PROTO -> "dis_emsg[DIS_PROTO]"
      [] OTHER -> "dis_emsg[DIS_SUCCESS]"

\* HasTxt without the test for an empty string
HasTxtNonNull(s) == IF s # NULL THEN 1 ELSE 0

\* if ((txt != NULL) && (*txt != '\0')) has_txt = 1;
HasTxt(s) == IF s # NULL /\ s # "" THEN 1 ELSE 0

\* BindSlot without the reset of the error state
BindSlotKeepError(tbl, i, s) ==
    [tbl EXCEPT ![i].ch_inuse = 1, ![i].ch_socket = s]

\* connection[conn].ch_inuse = 1; .ch_errno = 0; .ch_socket = sd; .ch_errtxt = NULL;
BindSlot(tbl, i, s) ==
    [tbl EXCEPT ![i] = [ch_inuse |-> 1, ch_errno |-> 0, ch_socket |-> s, ch_errtxt |-> NULL]]

(***************************************************************************)
(* Library routines whose code is outside the modelled files: the thread   *)
(* context, the table lock and the release of a slot.                      *)
(***************************************************************************)
\* no pbs_defschreply call has returned yet
NoDefCall == [stage |-> "none", ret |-> NoRet, err |-> 0, ops |-> <<>>]

\* run counts the successful calls while every call so far succeeded and no
\* slot was released; Broken afterwards
Broken == -1

\* what a call sees when it takes the table lock
Snapshot == [free |-> FreeCount(connection), run |-> run, stage |-> "none", stale |-> FALSE]
NoCall == [free |-> 0, run |-> Broken, stage |-> "none", stale |-> FALSE]

\* the call of thread t returns r
ReturnConn(t, r) ==
    /\ pc' = [pc EXCEPT ![t] = "idle"]
    /\ conn' = [conn EXCEPT ![t] = 0]
    /\ sd' = [sd EXCEPT ![t] = -1]
    /\ owned' = IF r >= 1 THEN owned \cup {r} ELSE owned
    /\ run' = IF r >= 1 /\ run # Broken THEN run + 1 ELSE Broken

\* pbs_client_thread_unlock_conntable(): the lock is given up (the routine can
\* still report a failure)
UnlockConntable(t) ==
    /\ conntable_lock' = NoThread
    /\ call' = NoCall

(***************************************************************************)
(* pbs_connect2mom, one action per step.                                   *)
(***************************************************************************)
\* the call, and the two steps that touch only the caller's own data:
\* if (pbs_client_thread_init_thread_context() != 0) return -1;
\* if (pbs_loadconf(0) == 0) return -1;
Connect2MomEnter(t) ==
    /\ pc[t] = "idle"
    /\ UNCHANGED <<defOnly, cmdOnly>>
    /\ ncalls < MaxCalls
    /\ ncalls' = ncalls + 1
    /\ \/ /\ pc' = [pc EXCEPT ![t] = "c_lock"]
          /\ UNCHANGED <<pbs_errno, conn, sd, owned, run>>
       \/ /\ pbs_errno' = [pbs_errno EXCEPT ![t] = PBSE_SYSTEM]
          /\ ReturnConn(t, -1)
       \/ /\ ReturnConn(t, -1)
          /\ UNCHANGED pbs_errno
    /\ UNCHANGED <<connection, conntable_lock, open_socks, os_errno, pbs_tcp_timeout, call>>

\* if (pbs_client_thread_lock_conntable() != 0) return -1;
ConnLockConntable(t) ==
    /\ pc[t] = "c_lock"
    /\ UNCHANGED <<defOnly, cmdOnly>>
    /\ \/ /\ conntable_lock = NoThread
          /\ conntable_lock' = t
          /\ call' = Snapshot
          /\ pc' = [pc EXCEPT ![t] = "c_scan"]
          /\ UNCHANGED <<pbs_errno, conn, sd, owned, run>>
       \/ /\ pbs_errno' = [pbs_errno EXCEPT ![t] = PBSE_SYSTEM]
          /\ ReturnConn(t, -1)
          /\ UNCHANGED <<conntable_lock, call>>
    /\ UNCHANGED <<connection, open_socks, os_errno, pbs_tcp_timeout, ncalls>>

\* the scan for a free slot, PBSE_NOCONNECTS, and the defaulting of momhost
ConnFindSlot(t) ==
    /\ pc[t] = "c_scan"
    /\ UNCHANGED <<defOnly, cmdOnly>>
    /\ conn' = [conn EXCEPT ![t] = FindSlot(connection)]
    /\ IF FindSlot(connection) >= NCONNECTS
       THEN /\ pbs_errno' = [pbs_errno EXCEPT ![t] = PBSE_NOCONNECTS]
            /\ pc' = [pc EXCEPT ![t] = "c_err"]
            /\ call' = [call EXCEPT !.stage = "noconnects"]
       ELSE /\ \E momhost \in {NULL, "", "mom1"} :
                  DefaultHost(momhost) \in {"localhost", "mom1"}
            /\ pc' = [pc EXCEPT ![t] = "c_resolve"]
            /\ call' = [call EXCEPT !.stale = connection[FindSlot(connection)].ch_errno # 0]
            /\ UNCHANGED pbs_errno
    /\ UNCHANGED <<connection, conntable_lock, open_socks, os_errno, pbs_tcp_timeout,
                   sd, owned, ncalls, run>>

\* getaddrinfo() and the choice of the first AF_INET address
ConnGetAddrInfo(t) ==
    /\ pc[t] = "c_resolve"
    /\ UNCHANGED <<defOnly, cmdOnly>>
    /\ \/ /\ pbs_errno' = [pbs_errno EXCEPT ![t] = PBSE_BADHOST]
          /\ pc' = [pc EXCEPT ![t] = "c_err"]
          /\ call' = [call EXCEPT !.stage = "resolve"]
       \/ \E pai \in {<<AF_INET>>, <<AF_INET6>>, <<AF_INET6, AF_INET>>} :
             IF FirstIPv4(pai) = 0
             THEN /\ pbs_errno' = [pbs_errno EXCEPT ![t] = PBSE_BADHOST]
                  /\ pc' = [pc EXCEPT ![t] = "c_err"]
                  /\ call' = [call EXCEPT !.stage = "nov4"]
             ELSE /\ pc' = [pc EXCEPT ![t] = "c_socket"]
                  /\ UNCHANGED <<pbs_errno, call>>
    /\ UNCHANGED <<connection, conntable_lock, open_socks, os_errno, pbs_tcp_timeout,
                   conn, sd, owned, ncalls, run>>

\* sd = socket(AF_INET, SOCK_STREAM, 0); if (sd < 0) { pbs_errno = PBSE_PROTOCOL; goto err; }
\* the new descriptor is any number that is not open: the rest of the process
\* opens and closes descriptors too
ConnSocket(t) ==
    /\ pc[t] = "c_socket"
    /\ UNCHANGED <<defOnly, cmdOnly>>
    /\ \/ /\ os_errno' = [os_errno EXCEPT ![t] = EMFILE]
          /\ sd' = [sd EXCEPT ![t] = -1]
          /\ pbs_errno' = [pbs_errno EXCEPT ![t] = PBSE_PROTOCOL]
          /\ pc' = [pc EXCEPT ![t] = "c_err"]
          /\ call' = [call EXCEPT !.stage = "socket"]
          /\ UNCHANGED open_socks
       \/ \E f \in Fds \ open_socks :
             /\ sd' = [sd EXCEPT ![t] = f]
             /\ open_socks' = open_socks \cup {f}
             /\ pc' = [pc EXCEPT ![t] = "c_connect"]
          /\ UNCHANGED <<os_errno, pbs_errno, call>>
    /\ UNCHANGED <<connection, conntable_lock, pbs_tcp_timeout, conn, owned, ncalls, run>>

\* ConnConnect without the close(sd) of the failure path
ConnConnectNoClose(t) ==
    /\ pc[t] = "c_connect"
    /\ UNCHANGED <<defOnly, cmdOnly>>
    /\ \/ /\ os_errno' = [os_errno EXCEPT ![t] = ECONNREFUSED]
          /\ pbs_errno' = [pbs_errno EXCEPT ![t] = os_errno'[t]]
          /\ pc' = [pc EXCEPT ![t] = "c_err"]
          /\ call' = [call EXCEPT !.stage = "connect"]
          /\ UNCHANGED open_socks
       \/ /\ pc' = [pc EXCEPT ![t] = "c_setup"]
          /\ UNCHANGED <<os_errno, open_socks, pbs_errno, call>>
    /\ UNCHANGED <<connection, conntable_lock, pbs_tcp_timeout, conn, sd, owned, ncalls, run>>

\* if (connect(sd, ...) < 0) { close(sd); pbs_errno = errno; freeaddrinfo(pai); goto err; }
ConnConnect(t) ==
    /\ pc[t] = "c_connect"
    /\ UNCHANGED <<defOnly, cmdOnly>>
    /\ \/ /\ os_errno' = [os_errno EXCEPT ![t] = ECONNREFUSED]
          /\ open_socks' = open_socks \ {sd[t]}
          /\ pbs_errno' = [pbs_errno EXCEPT ![t] = os_errno'[t]]
          /\ pc' = [pc EXCEPT ![t] = "c_err"]
          /\ call' = [call EXCEPT !.stage = "connect"]
       \/ /\ pc' = [pc EXCEPT ![t] = "c_setup"]
          /\ UNCHANGED <<os_errno, open_socks, pbs_errno, call>>
    /\ UNCHANGED <<connection, conntable_lock, pbs_tcp_timeout, conn, sd, owned, ncalls, run>>

\* DIS_tcp_setup(sd); pbs_tcp_timeout = PBS_DIS_TCP_TIMEOUT_VLONG; and the
\* registration of the slot
ConnRegister(t) ==
    /\ pc[t] = "c_setup"
    /\ UNCHANGED <<defOnly, cmdOnly>>
    /\ pbs_tcp_timeout' = PBS_DIS_TCP_TIMEOUT_VLONG
    /\ connection' = BindSlot(connection, conn[t], sd[t])
    /\ pc' = [pc EXCEPT ![t] = "c_ctx"]
    /\ UNCHANGED <<conntable_lock, open_socks, pbs_errno, os_errno, conn, sd,
                   owned, ncalls, run, call>>

\* if (pbs_client_thread_init_connect_context(conn) != 0) {
\*     close(connection[conn].ch_socket); connection[conn].ch_inuse = 0; goto err; }
ConnInitConnectContext(t) ==
    /\ pc[t] = "c_ctx"
    /\ UNCHANGED <<defOnly, cmdOnly>>
    /\ \/ /\ pbs_errno' = [pbs_errno EXCEPT ![t] = PBSE_SYSTEM]
          /\ open_socks' = open_socks \ {connection[conn[t]].ch_socket}
          /\ connection' = [connection EXCEPT ![conn[t]].ch_inuse = 0]
          /\ pc' = [pc EXCEPT ![t] = "c_err"]
          /\ call' = [call EXCEPT !.stage = "ctx"]
       \/ /\ pc' = [pc EXCEPT ![t] = "c_unlock"]
          /\ UNCHANGED <<pbs_errno, open_socks, connection, call>>
    /\ UNCHANGED <<conntable_lock, os_errno, pbs_tcp_timeout, conn, sd, owned, ncalls, run>>

\* if (pbs_client_thread_unlock_conntable() != 0) return -1; return conn;
ConnUnlockReturn(t) ==
    /\ pc[t] = "c_unlock"
    /\ UNCHANGED <<defOnly, cmdOnly>>
    /\ UnlockConntable(t)
    /\ \/ /\ ReturnConn(t, conn[t])
          /\ UNCHANGED pbs_errno
       \/ /\ pbs_errno' = [pbs_errno EXCEPT ![t] = PBSE_SYSTEM]
          /\ ReturnConn(t, -1)
    /\ UNCHANGED <<connection, open_socks, os_errno, pbs_tcp_timeout, ncalls>>

\* the error exit without the release of the table lock
ConnErrKeepLock(t) ==
    /\ pc[t] = "c_err"
    /\ UNCHANGED <<defOnly, cmdOnly>>
    /\ ReturnConn(t, -1)
    /\ UNCHANGED <<connection, conntable_lock, call, open_socks, pbs_errno, os_errno,
                   pbs_tcp_timeout, ncalls>>

\* err: (void)pbs_client_thread_unlock_conntable(); return -1;
ConnErr(t) ==
    /\ pc[t] = "c_err"
    /\ UNCHANGED <<defOnly, cmdOnly>>
    /\ UnlockConntable(t)
    /\ ReturnConn(t, -1)
    /\ UNCHANGED <<connection, open_socks, pbs_errno, os_errno, pbs_tcp_timeout, ncalls>>

(***************************************************************************)
(* The other users of the table in SpecConn.                               *)
(***************************************************************************)
\* release of a slot whose handle a connect returned: under the table lock, the
\* socket is closed, the error text freed and in-use cleared
ReleaseSlot(t) ==
    /\ pc[t] = "idle"
    /\ UNCHANGED <<defOnly, cmdOnly>>
    /\ conntable_lock = NoThread
    /\ \E h \in owned :
          /\ open_socks' = open_socks \ {connection[h].ch_socket}
          /\ connection' = [connection EXCEPT ![h].ch_inuse = 0,
                                              ![h].ch_socket = -1,
                                              ![h].ch_errtxt = NULL]
          /\ owned' = owned \ {h}
    /\ run' = Broken
    /\ UNCHANGED <<conntable_lock, pbs_errno, os_errno, pbs_tcp_timeout, pc,
                   conn, sd, ncalls, call>>

\* a failed exchange on a connected handle leaves its error on the slot: the
\* error text of pbs_defschreply and the error code recorded by the reply read
SlotError(t) ==
    /\ pc[t] = "idle"
    /\ UNCHANGED <<defOnly, cmdOnly>>
    /\ \E h \in owned :
          /\ connection[h].ch_errno = 0
          /\ connection' = [connection EXCEPT ![h].ch_errno = PBSE_PROTOCOL,
                                              ![h].ch_errtxt = DisEmsg(DIS_PROTO)]
    /\ UNCHANGED <<conntable_lock, open_socks, pbs_errno, os_errno, pbs_tcp_timeout, pc,
                   conn, sd, owned, ncalls, run, call>>

\* a null pointer, and a buffer holding the bytes b
NullBuf == [null |-> TRUE, bytes |-> <<>>]
Buf(b) == [null |-> FALSE, bytes |-> b]

\* decode_DIS_JobCred is not running
IdleCred ==
    /\ jc_stream = <<>>
    /\ jc_reads = <<>>
    /\ preq = [rq_type |-> 0, rq_data |-> NullBuf, rq_size |-> 0]
    /\ jc_pc = "off"
    /\ jc_ret = NoRet

\* qdisable is not running
IdleQd ==
    /\ qd_pc = "off"
    /\ argv = <<>>
    /\ dest = 0
    /\ ct = 0
    /\ qd_open = {}
    /\ qd_log = <<>>
    /\ exitstatus = 0

\* parse_stage_name is not running
IdleStage ==
    /\ pair = <<>>
    /\ local_name = <<>>
    /\ host_name = <<>>
    /\ remote_name = <<>>
    /\ ps_ret = NoRet
    /\ ps_pc = "off"

\* parse_stage_list is not running
IdleList ==
    /\ list = <<>>
    /\ psl_l = <<>>
    /\ psl_c = 0
    /\ psl_s = 0
    /\ psl_b = 0
    /\ comma = 0
    /\ psl_wr = [local |-> -1, host |-> -1, remote |-> -1]
    /\ psl_ret = NoRet
    /\ psl_pc = "off"

\* the routines that do not use the connection table are not running
IdleCmds == IdleCred /\ IdleQd /\ IdleStage /\ IdleList

\* the library at process start: the zeroed table, no call in progress
InitTable ==
    /\ connection = [i \in Slot |-> EmptySlot]
    /\ conntable_lock = NoThread
    /\ open_socks = {}
    /\ pbs_errno = [t \in Thread |-> 0]
    /\ os_errno = [t \in Thread |-> 0]
    /\ pbs_tcp_timeout = PBS_DIS_TCP_TIMEOUT_SHORT
    /\ pc = [t \in Thread |-> "idle"]
    /\ conn = [t \in Thread |-> 0]
    /\ sd = [t \in Thread |-> -1]
    /\ owned = {}
    /\ ncalls = 0
    /\ run = 0
    /\ call = NoCall
    /\ ch_mutex = [i \in Slot |-> NoThread]
    /\ c = [t \in Thread |-> 0]
    /\ id = [t \in Thread |-> NULL]
    /\ sock = [t \in Thread |-> -1]
    /\ cid = [t \in Thread |-> 0]
    /\ dcalls = 0
    /\ wire = [f \in Fds |-> <<>>]
    /\ ops = [t \in Thread |-> <<>>]
    /\ dlast = NoDefCall

InitConn == IdleCmds /\ InitTable /\ routine = "pbs_connect2mom"

NextConn ==
    \E t \in Thread :
        \/ Connect2MomEnter(t)
        \/ ConnLockConntable(t)
        \/ ConnFindSlot(t)
        \/ ConnGetAddrInfo(t)
        \/ ConnSocket(t)
        \/ ConnConnect(t)
        \/ ConnRegister(t)
        \/ ConnInitConnectContext(t)
        \/ ConnUnlockReturn(t)
        \/ ConnErr(t)
        \/ ReleaseSlot(t)
        \/ SlotError(t)

SpecConn == InitConn /\ [][NextConn]_vars


(***************************************************************************)
(* pbs_defschreply, one action per step (SpecDef).                         *)
(***************************************************************************)
\* an operation of call k reaches socket s
WireOp(w, s, k) ==
    IF s \notin DOMAIN w THEN w
    ELSE IF Len(w[s]) > 0 /\ w[s][Len(w[s])] = k THEN w
    ELSE [w EXCEPT ![s] = Append(@, k)]

\* the call of thread t returns r from `stage`; e is the code of the codec call
\* that failed, if one did, and o the wire operations of a complete exchange
DefDone(t, r, stage, e, o) ==
    /\ pc' = [pc EXCEPT ![t] = "idle"]
    /\ dlast' = [stage |-> stage, ret |-> r, err |-> e, ops |-> o]
    /\ ops' = [ops EXCEPT ![t] = <<>>]
    /\ c' = [c EXCEPT ![t] = 0]
    /\ id' = [id EXCEPT ![t] = NULL]
    /\ sock' = [sock EXCEPT ![t] = -1]
    /\ cid' = [cid EXCEPT ![t] = 0]

\* a return before the exchange is complete, with no codec failure
DefReturn(t, r, stage) == DefDone(t, r, stage, 0, <<>>)

\* pbs_client_thread_unlock_connection(c) when pbs_errno is e: the slot lock is
\* given up; the routine can still report a failure, and then leaves its own
\* code in pbs_errno
UnlockConnection(t, e) ==
    /\ ch_mutex' = [ch_mutex EXCEPT ![c[t]] = NoThread]
    /\ \/ pbs_errno' = [pbs_errno EXCEPT ![t] = e]
       \/ pbs_errno' = [pbs_errno EXCEPT ![t] = PBSE_SYSTEM]

\* the error exit of the encode steps, with rc = r after the codec returned e:
\* connection[c].ch_errtxt = strdup(dis_emsg[rc]); pbs_errno = PBSE_SYSTEM if the
\* copy is NULL, else PBSE_PROTOCOL; (void)unlock; return pbs_errno;
EncodeFailed(t, r, e) ==
    /\ \E dup \in {DisEmsg(r), NULL} :
          /\ connection' = [connection EXCEPT ![c[t]].ch_errtxt = dup]
          /\ UnlockConnection(t, IF dup = NULL THEN PBSE_SYSTEM ELSE PBSE_PROTOCOL)
    /\ DefDone(t, pbs_errno'[t], "encode", e, <<>>)

\* the call: a connected handle and the job id
DefSchReplyCall(t) ==
    /\ pc[t] = "idle"
    /\ dcalls < MaxDefCalls
    /\ dcalls' = dcalls + 1
    /\ cid' = [cid EXCEPT ![t] = dcalls + 1]
    /\ \E h \in {i \in Slot : connection[i].ch_inuse = 1} : c' = [c EXCEPT ![t] = h]
    /\ \E s \in {NULL, "", "1.svr"} : id' = [id EXCEPT ![t] = s]
    /\ pc' = [pc EXCEPT ![t] = "d_entry"]
    /\ UNCHANGED <<connection, pbs_errno, connOnly, cmdOnly, ch_mutex, sock, wire, ops, dlast>>

\* DefSchReplyCheck accepting an empty job id: only id == NULL is refused
DefSchReplyCheckNullOnly(t) ==
    /\ pc[t] = "d_entry"
    /\ IF id[t] = NULL
       THEN /\ pbs_errno' = [pbs_errno EXCEPT ![t] = PBSE_IVALREQ]
            /\ DefReturn(t, PBSE_IVALREQ, "ivalreq")
       ELSE /\ sock' = [sock EXCEPT ![t] = connection[c[t]].ch_socket]
            /\ pc' = [pc EXCEPT ![t] = "d_lock"]
            /\ UNCHANGED <<pbs_errno, dlast, ops, c, id, cid>>
    /\ UNCHANGED <<connection, connOnly, cmdOnly, ch_mutex, dcalls, wire>>

\* if ((id == NULL) || (*id == '\0')) return (pbs_errno = PBSE_IVALREQ);
\* sock = connection[c].ch_socket;
\* if (pbs_client_thread_init_thread_context() != 0) return pbs_errno;
DefSchReplyCheck(t) ==
    /\ pc[t] = "d_entry"
    /\ IF id[t] = NULL \/ id[t] = ""
       THEN /\ pbs_errno' = [pbs_errno EXCEPT ![t] = PBSE_IVALREQ]
            /\ DefReturn(t, PBSE_IVALREQ, "ivalreq")
       ELSE \/ /\ sock' = [sock EXCEPT ![t] = connection[c[t]].ch_socket]
               /\ pc' = [pc EXCEPT ![t] = "d_lock"]
               /\ UNCHANGED <<pbs_errno, dlast, ops, c, id, cid>>
            \/ /\ pbs_errno' = [pbs_errno EXCEPT ![t] = PBSE_SYSTEM]
               /\ DefReturn(t, PBSE_SYSTEM, "init")
    /\ UNCHANGED <<connection, connOnly, cmdOnly, ch_mutex, dcalls, wire>>

\* DefLockConnection with one lock for all the handles: the lock of slot 1
DefLockConnectionShared(t) ==
    /\ pc[t] = "d_lock"
    /\ \/ /\ ch_mutex[1] = NoThread
          /\ ch_mutex' = [ch_mutex EXCEPT ![1] = t]
          /\ pc' = [pc EXCEPT ![t] = "d_hdr"]
          /\ UNCHANGED <<pbs_errno, dlast, ops, c, id, sock, cid>>
       \/ /\ pbs_errno' = [pbs_errno EXCEPT ![t] = PBSE_SYSTEM]
          /\ DefReturn(t, PBSE_SYSTEM, "lock")
          /\ UNCHANGED ch_mutex
    /\ UNCHANGED <<connection, connOnly, cmdOnly, dcalls, wire>>

\* if (pbs_client_thread_lock_connection(c) != 0) return pbs_errno;
\* blocking call, waits for mutex release
DefLockConnection(t) ==
    /\ pc[t] = "d_lock"
    /\ \/ /\ ch_mutex[c[t]] = NoThread
          /\ ch_mutex' = [ch_mutex EXCEPT ![c[t]] = t]
          /\ pc' = [pc EXCEPT ![t] = "d_hdr"]
          /\ UNCHANGED <<pbs_errno, dlast, ops, c, id, sock, cid>>
       \/ /\ pbs_errno' = [pbs_errno EXCEPT ![t] = PBSE_SYSTEM]
          /\ DefReturn(t, PBSE_SYSTEM, "lock")
          /\ UNCHANGED ch_mutex
    /\ UNCHANGED <<connection, connOnly, cmdOnly, dcalls, wire>>

\* DIS_tcp_setup(sock);
\* if ((rc = encode_DIS_ReqHdr(sock, PBS_BATCH_DefSchReply, pbs_current_user)) ||
\*     (rc = diswui(sock, cmd) != 0) || (rc = diswst(sock, id) != 0) ||
\*     (rc = diswui(sock, err) != 0)) { ... return pbs_errno; }
\* rc is the header's code, but the result of the comparison for the other three
DefEncodeRequest(t) ==
    /\ pc[t] = "d_hdr"
    /\ wire' = WireOp(wire, sock[t], cid[t])
    /\ \/ /\ pc' = [pc EXCEPT ![t] = "d_body"]
          /\ ops' = [ops EXCEPT ![t] = @ \o <<"ReqHdr", "cmd", "id", "err">>]
          /\ UNCHANGED <<connection, pbs_errno, ch_mutex, dlast, c, id, sock, cid>>
       \/ \E e \in DisErr : EncodeFailed(t, e, e)
       \/ \E e \in DisErr, arg \in {"cmd", "id", "err"} :
             EncodeFailed(t, IF e # DIS_SUCCESS THEN 1 ELSE 0, e)
    /\ UNCHANGED <<connOnly, cmdOnly, dcalls>>

\* rc = diswsi(sock, has_txt);
\* if ((has_txt == 1) && (rc == 0)) rc = diswst(sock, txt);
\* if (rc == 0) rc = encode_DIS_ReqExtend(sock, extend);
\* if (rc) { ... return pbs_errno; }
DefEncodeBody(t) ==
    /\ pc[t] = "d_body"
    /\ wire' = WireOp(wire, sock[t], cid[t])
    /\ \E txt \in {NULL, "", "msg"} :
          LET has_txt == HasTxt(txt)
              flag == IF has_txt = 1 THEN "has_txt=1" ELSE "has_txt=0"
              text == IF has_txt = 1 THEN <<txt>> ELSE <<>>
              writes == IF has_txt = 1 THEN {"has_txt", "txt", "extend"}
                                       ELSE {"has_txt", "extend"}
          IN  \/ /\ pc' = [pc EXCEPT ![t] = "d_flush"]
                 /\ ops' = [ops EXCEPT ![t] = @ \o <<flag>> \o text \o <<"ReqExtend">>]
                 /\ UNCHANGED <<connection, pbs_errno, ch_mutex, dlast, c, id, sock, cid>>
              \/ \E e \in DisErr, failed \in writes : EncodeFailed(t, e, e)
    /\ UNCHANGED <<connOnly, cmdOnly, dcalls>>

\* DefFlush giving up the slot lock as soon as the request is flushed
DefFlushUnlockEarly(t) ==
    /\ pc[t] = "d_flush"
    /\ wire' = WireOp(wire, sock[t], cid[t])
    /\ \/ /\ pc' = [pc EXCEPT ![t] = "d_read"]
          /\ ops' = [ops EXCEPT ![t] = Append(@, "wflush")]
          /\ ch_mutex' = [ch_mutex EXCEPT ![c[t]] = NoThread]
          /\ UNCHANGED <<pbs_errno, dlast, c, id, sock, cid>>
       \/ /\ UnlockConnection(t, PBSE_PROTOCOL)
          /\ DefReturn(t, pbs_errno'[t], "flush")
    /\ UNCHANGED <<connection, connOnly, cmdOnly, dcalls>>

\* DefFlush returning from a failed flush without the unlock
DefFlushKeepLock(t) ==
    /\ pc[t] = "d_flush"
    /\ wire' = WireOp(wire, sock[t], cid[t])
    /\ \/ /\ pc' = [pc EXCEPT ![t] = "d_read"]
          /\ ops' = [ops EXCEPT ![t] = Append(@, "wflush")]
          /\ UNCHANGED <<pbs_errno, ch_mutex, dlast, c, id, sock, cid>>
       \/ /\ pbs_errno' = [pbs_errno EXCEPT ![t] = PBSE_PROTOCOL]
          /\ DefReturn(t, PBSE_PROTOCOL, "flush")
          /\ UNCHANGED ch_mutex
    /\ UNCHANGED <<connection, connOnly, cmdOnly, dcalls>>

\* if (DIS_tcp_wflush(sock)) { pbs_errno = PBSE_PROTOCOL; (void)unlock; return pbs_errno; }
DefFlush(t) ==
    /\ pc[t] = "d_flush"
    /\ wire' = WireOp(wire, sock[t], cid[t])
    /\ \/ /\ pc' = [pc EXCEPT ![t] = "d_read"]
          /\ ops' = [ops EXCEPT ![t] = Append(@, "wflush")]
          /\ UNCHANGED <<pbs_errno, ch_mutex, dlast, c, id, sock, cid>>
       \/ /\ UnlockConnection(t, PBSE_PROTOCOL)
          /\ DefReturn(t, pbs_errno'[t], "flush")
    /\ UNCHANGED <<connection, connOnly, cmdOnly, dcalls>>

\* DefReadReply returning success whatever the reply read recorded on the slot
DefReadReplyReturnZero(t) ==
    /\ pc[t] = "d_read"
    /\ wire' = WireOp(wire, connection[c[t]].ch_socket, cid[t])
    /\ \E reply \in {"ok", "status", "eof"} :
          LET code == CASE reply = "ok" -> 0
                        [] reply = "status" -> PBSE_UNKJOBID
                        [] OTHER -> PBSE_PROTOCOL
              done == Append(ops[t], "rdrpy")
          IN  /\ connection' = [connection EXCEPT ![c[t]].ch_errno = code]
              /\ ch_mutex' = [ch_mutex EXCEPT ![c[t]] = NoThread]
              /\ DefDone(t, 0, IF reply = "eof" THEN "eof" ELSE "read", 0, done)
              /\ UNCHANGED pbs_errno
    /\ UNCHANGED <<connOnly, cmdOnly, dcalls>>

\* reply = PBSD_rdrpy(c); rc = connection[c].ch_errno; PBSD_FreeReply(reply);
\* if (pbs_client_thread_unlock_connection(c) != 0) return pbs_errno; return rc;
\* the reply read records 0 or the status the server reported, or, when the
\* peer closed the socket before replying, PBSE_PROTOCOL
DefReadReply(t) ==
    /\ pc[t] = "d_read"
    /\ wire' = WireOp(wire, connection[c[t]].ch_socket, cid[t])
    /\ \E reply \in {"ok", "status", "eof"} :
          LET code == CASE reply = "ok" -> 0
                        [] reply = "status" -> PBSE_UNKJOBID
                        [] OTHER -> PBSE_PROTOCOL
              rc == code
              done == Append(ops[t], "rdrpy")
          IN  /\ connection' = [connection EXCEPT ![c[t]].ch_errno = code]
              /\ ch_mutex' = [ch_mutex EXCEPT ![c[t]] = NoThread]
              /\ \/ /\ DefDone(t, rc, IF reply = "eof" THEN "eof" ELSE "read", 0, done)
                    /\ UNCHANGED pbs_errno
                 \/ /\ pbs_errno' = [pbs_errno EXCEPT ![t] = PBSE_SYSTEM]
                    /\ DefDone(t, PBSE_SYSTEM, "unlock", 0, done)
    /\ UNCHANGED <<connOnly, cmdOnly, dcalls>>

\* the handles the client holds when the replies are sent
Connected == {1, 2}

\* the table after the connects that returned the handles of Connected: slot i
\* holds descriptor i+2
InitDef ==
    /\ IdleCmds
    /\ routine = "pbs_defschreply"
    /\ connection = [i \in Slot |->
                        IF i \notin Connected THEN EmptySlot
                        ELSE [ch_inuse |-> 1, ch_errno |-> 0, ch_socket |-> i + 2,
                              ch_errtxt |-> NULL]]
    /\ conntable_lock = NoThread
    /\ open_socks = {i + 2 : i \in Connected}
    /\ pbs_errno = [t \in Thread |-> 0]
    /\ os_errno = [t \in Thread |-> 0]
    /\ pbs_tcp_timeout = PBS_DIS_TCP_TIMEOUT_VLONG
    /\ pc = [t \in Thread |-> "idle"]
    /\ conn = [t \in Thread |-> 0]
    /\ sd = [t \in Thread |-> -1]
    /\ owned = Connected
    /\ ncalls = Cardinality(Connected)
    /\ run = Cardinality(Connected)
    /\ call = NoCall
    /\ ch_mutex = [i \in Slot |-> NoThread]
    /\ c = [t \in Thread |-> 0]
    /\ id = [t \in Thread |-> NULL]
    /\ sock = [t \in Thread |-> -1]
    /\ cid = [t \in Thread |-> 0]
    /\ dcalls = 0
    /\ wire = [f \in Fds |-> <<>>]
    /\ ops = [t \in Thread |-> <<>>]
    /\ dlast = NoDefCall

NextDef ==
    \E t \in Thread :
        \/ DefSchReplyCall(t)
        \/ DefSchReplyCheck(t)
        \/ DefLockConnection(t)
        \/ DefEncodeRequest(t)
        \/ DefEncodeBody(t)
        \/ DefFlush(t)
        \/ DefReadReply(t)

SpecDef == InitDef /\ [][NextDef]_vars

(***************************************************************************)
(* Both routines of the library (SpecLib): the threads of a behaviour run  *)
(* pbs_connect2mom on the empty table, or pbs_defschreply on connected     *)
(* handles.                                                                *)
(***************************************************************************)
InitLib == InitConn \/ InitDef

NextLib ==
    \/ routine = "pbs_connect2mom" /\ NextConn
    \/ routine = "pbs_defschreply" /\ NextDef

SpecLib == InitLib /\ [][NextLib]_vars

(***************************************************************************)
(* decode_DIS_JobCred (src/lib/Libifl/dec_JobCred.c) on one request        *)
(* (SpecCred).                                                             *)
(***************************************************************************)
\* the bytes a credential is made of
CredByte == {0, 1}

\* the byte strings of length at most n
RECURSIVE BytesUpTo(_)
BytesUpTo(n) ==
    IF n = 0 THEN {<<>>}
    ELSE BytesUpTo(n - 1) \cup {Append(b, x) : b \in {y \in BytesUpTo(n - 1) : Len(y) = n - 1},
                                               x \in CredByte}

\* what the stream can hold where an item is read: an unsigned integer, a
\* counted string, or something on which the read fails with a codec error
UIntItem(v) == [kind |-> "uint", val |-> v, data |-> <<>>, err |-> DIS_SUCCESS]
CsItem(b) == [kind |-> "cs", val |-> 0, data |-> b, err |-> DIS_SUCCESS]
BadItem(e) == [kind |-> "bad", val |-> 0, data |-> <<>>, err |-> e]

\* disrui(sock, &rc): the unsigned integer read and rc
DisRui(item) ==
    IF item.kind = "uint" THEN [value |-> item.val, rc |-> DIS_SUCCESS]
    ELSE [value |-> 0, rc |-> IF item.kind = "bad" THEN item.err ELSE DIS_PROTO]

\* disrcs(sock, &nchars, &rc): the buffer allocated for the counted string, its
\* length and rc; a null pointer and length 0 when the read fails
DisRcs(item) ==
    IF item.kind = "cs"
    THEN [value |-> Buf(item.data), nchars |-> Len(item.data), rc |-> DIS_SUCCESS]
    ELSE [value |-> NullBuf, nchars |-> 0,
          rc |-> IF item.kind = "bad" THEN item.err ELSE DIS_PROTO]

\* DecodeJobCredType going on to the counted string whatever rc is
DecodeJobCredTypeNoCheck ==
    /\ jc_pc = "jc_type"
    /\ LET r == DisRui(jc_stream[1])
       IN  /\ preq' = [preq EXCEPT !.rq_data = NullBuf, !.rq_type = r.value]
           /\ jc_reads' = Append(jc_reads, "disrui")
           /\ jc_pc' = "jc_data"
           /\ UNCHANGED jc_ret
    /\ UNCHANGED <<notCred, jc_stream>>

\* preq->rq_ind.rq_jobcred.rq_data = 0;
\* preq->rq_ind.rq_jobcred.rq_type = disrui(sock, &rc);
\* if (rc) return rc;
DecodeJobCredType ==
    /\ jc_pc = "jc_type"
    /\ LET r == DisRui(jc_stream[1])
       IN  /\ preq' = [preq EXCEPT !.rq_data = NullBuf, !.rq_type = r.value]
           /\ jc_reads' = Append(jc_reads, "disrui")
           /\ IF r.rc # 0
              THEN jc_pc' = "jc_done" /\ jc_ret' = r.rc
              ELSE jc_pc' = "jc_data" /\ UNCHANGED jc_ret
    /\ UNCHANGED <<notCred, jc_stream>>

\* preq->rq_ind.rq_jobcred.rq_data = disrcs(sock, &rq_size, &rc);
\* return rc;
DecodeJobCredData ==
    /\ jc_pc = "jc_data"
    /\ LET r == DisRcs(jc_stream[2])
       IN  /\ preq' = [preq EXCEPT !.rq_data = r.value, !.rq_size = r.nchars]
           /\ jc_reads' = Append(jc_reads, "disrcs")
           /\ jc_pc' = "jc_done"
           /\ jc_ret' = r.rc
    /\ UNCHANGED <<notCred, jc_stream>>

\* the request structure exists when the routine is called, with whatever an
\* earlier use left in it; the socket delivers two items
InitCred ==
    /\ InitTable
    /\ IdleQd
    /\ IdleStage
    /\ IdleList
    /\ routine = "decode_DIS_JobCred"
    /\ jc_stream \in
          ({UIntItem(v) : v \in 0 .. MaxCredType}
               \cup {CsItem(<<>>)} \cup {BadItem(e) : e \in {DIS_OVERFLOW, DIS_PROTO}})
          \X ({CsItem(b) : b \in BytesUpTo(MaxCredLen)}
               \cup {UIntItem(0)} \cup {BadItem(e) : e \in {DIS_NOMALLOC, DIS_PROTO}})
    /\ jc_reads = <<>>
    /\ preq \in [rq_type : {0, MaxCredType}, rq_data : {NullBuf, Buf(<<1>>)}, rq_size : {0, 1}]
    /\ jc_pc = "jc_type"
    /\ jc_ret = NoRet

NextCred == DecodeJobCredType \/ DecodeJobCredData

SpecCred == InitCred /\ [][NextCred]_vars

(***************************************************************************)
(* qdisable (src/cmds/qdisable.c): main and execute (SpecQd).              *)
(***************************************************************************)
\* the destinations of a command line: a well-formed one and an ill-formed one
Destination == {"q1@svr1", "q1@@"}

\* parse_destination_id(): 0 for a well-formed destination
ParseDestinationId(d) == IF d = "q1@@" THEN 1 ELSE 0

\* the command lines with the program name and up to n destinations
RECURSIVE ArgvUpTo(_)
ArgvUpTo(n) ==
    IF n = 0 THEN {<<"qdisable">>}
    ELSE LET shorter == ArgvUpTo(n - 1)
         IN  shorter \cup {Append(a, d) : a \in {x \in shorter : Len(x) = n},
                                          d \in Destination}

\* argc, and argv[i] with the indices of the source
argc == Len(argv)
Arg(i) == argv[i + 1]

\* a call of a library routine, as main and execute make them
LibCall(op, h) == [op |-> op, ct |-> h]

\* exit(status)
Exit(status) ==
    /\ qd_pc' = "exited"
    /\ exitstatus' = status

\* if (argc == 1) { usage; exit(1); }
\* if (CS_client_init() != CS_SUCCESS) { ...; exit(1); }
\* for (dest=1; ...
QdMain ==
    /\ qd_pc = "main"
    /\ \/ argc = 1 /\ Exit(1) /\ UNCHANGED dest
       \/ argc # 1 /\ Exit(1) /\ UNCHANGED dest
       \/ argc # 1 /\ qd_pc' = "loop" /\ dest' = 1 /\ UNCHANGED exitstatus
    /\ UNCHANGED <<notQd, argv, ct, qd_open, qd_log>>

\* for (...; dest<argc; dest++)
\*     if (parse_destination_id(argv[dest], &queue, &server) == 0) execute(queue, server);
\*     else { ...; exitstatus = 1; }
\* CS_close_app(); exit(exitstatus);
QdLoop ==
    /\ qd_pc = "loop"
    /\ IF dest < argc
       THEN IF ParseDestinationId(Arg(dest)) = 0
            THEN qd_pc' = "execute" /\ UNCHANGED <<dest, exitstatus>>
            ELSE /\ exitstatus' = 1
                 /\ dest' = dest + 1
                 /\ UNCHANGED qd_pc
       ELSE Exit(exitstatus) /\ UNCHANGED dest
    /\ UNCHANGED <<notQd, argv, ct, qd_open, qd_log>>

\* if ((ct = cnt2server(server)) > 0) { ... } else { ...; exitstatus = 2; }
\* cnt2server gives the handle of a new connection, or a value that is not
\* positive and no connection
QdExecuteConnect ==
    /\ qd_pc = "execute"
    /\ \E r \in {-1, 0} \cup ((1 .. (NCONNECTS - 1)) \ qd_open) :
          /\ ct' = r
          /\ qd_log' = Append(qd_log, LibCall("cnt2server", r))
          /\ IF r > 0
             THEN /\ qd_open' = qd_open \cup {r}
                  /\ qd_pc' = "manager"
                  /\ UNCHANGED <<dest, exitstatus>>
             ELSE /\ exitstatus' = 2
                  /\ qd_pc' = "loop"
                  /\ dest' = dest + 1
                  /\ UNCHANGED qd_open
    /\ UNCHANGED <<notQd, argv>>

\* execute with a return after the report of a failed request
QdExecuteManagerReturnOnError ==
    /\ qd_pc = "manager"
    /\ qd_log' = Append(qd_log, LibCall("pbs_manager", ct))
    /\ \/ qd_pc' = "disconnect" /\ UNCHANGED <<dest, exitstatus>>
       \/ exitstatus' = 2 /\ qd_pc' = "loop" /\ dest' = dest + 1
    /\ UNCHANGED <<notQd, argv, ct, qd_open>>

\* merr = pbs_manager(ct, MGR_CMD_SET, MGR_OBJ_QUEUE, queue, &attr, NULL);
\* if (merr != 0) { ...; exitstatus = 2; }
QdExecuteManager ==
    /\ qd_pc = "manager"
    /\ qd_log' = Append(qd_log, LibCall("pbs_manager", ct))
    /\ \E merr \in {0, PBSE_PROTOCOL} :
          exitstatus' = IF merr # 0 THEN 2 ELSE exitstatus
    /\ qd_pc' = "disconnect"
    /\ UNCHANGED <<notQd, argv, dest, ct, qd_open>>

\* pbs_disconnect(ct); and the return to main's loop
QdExecuteDisconnect ==
    /\ qd_pc = "disconnect"
    /\ qd_log' = Append(qd_log, LibCall("pbs_disconnect", ct))
    /\ qd_open' = qd_open \ {ct}
    /\ qd_pc' = "loop"
    /\ dest' = dest + 1
    /\ UNCHANGED <<notQd, argv, ct, exitstatus>>

\* the command starts with any command line; exitstatus is 0
InitQd ==
    /\ InitTable
    /\ IdleCred
    /\ IdleStage
    /\ IdleList
    /\ routine = "qdisable"
    /\ qd_pc = "main"
    /\ argv \in ArgvUpTo(MaxDest)
    /\ dest = 0
    /\ ct = 0
    /\ qd_open = {}
    /\ qd_log = <<>>
    /\ exitstatus = 0

NextQd ==
    \/ QdMain
    \/ QdLoop
    \/ QdExecuteConnect
    \/ QdExecuteManager
    \/ QdExecuteDisconnect

SpecQd == InitQd /\ [][NextQd]_vars

(***************************************************************************)
(* parse_stage_name (src/lib/Libcmds/parse_stage.c) on one string          *)
(* (SpecStage).                                                            *)
(***************************************************************************)
\* the characters of a string: a letter, a blank, a tab, the two separators and
\* a control character
Char == {"a", " ", "\t", "@", ":", "^A"}
\* the terminator of a string, and what a buffer holds before it is written
NUL == "NUL"
Unset == "?"

isprint(x) == x \in {"a", " ", "@", ":", ",", "\\"}
isspace(x) == x \in {" ", "\t"}

\* #define ISNAMECHAR(x)  (((isprint(x)) || (isspace(x))) && ((x) != '@') )
ISNAMECHAR(x) == (isprint(x) \/ isspace(x)) /\ x # "@"

\* ISNAMECHAR2 without the test for whitespace
ISNAMECHAR2AllowSpace(x) == isprint(x) /\ x # "@" /\ x # ":"

\* #define ISNAMECHAR2(x) ((isprint(x)) && (! isspace(x))  && ((x) != '@') && ((x) != ':') )
ISNAMECHAR2(x) == isprint(x) /\ ~isspace(x) /\ x # "@" /\ x # ":"

\* the strings of up to n characters
RECURSIVE StringsUpTo(_)
StringsUpTo(n) ==
    IF n = 0 THEN {<<>>}
    ELSE LET shorter == StringsUpTo(n - 1)
         IN  shorter \cup {Append(x, ch) : x \in {y \in shorter : Len(y) = n - 1},
                                           ch \in Char}

\* *c for the pointer c that is i-1 characters into the string s
At(s, i) == IF i <= Len(s) THEN s[i] ELSE NUL

\* the string a buffer holds: its characters up to the first terminator
CString(buf) ==
    LET n == CHOOSE n \in 0 .. Len(buf) :
                 /\ \A j \in 1 .. n : buf[j] # NUL
                 /\ n < Len(buf) => buf[n + 1] = NUL
    IN  SubSeq(buf, 1, n)

\* while (isspace(*c)) c++;
RECURSIVE SkipSpace(_, _)
SkipSpace(s, i) == IF isspace(At(s, i)) THEN SkipSpace(s, i + 1) ELSE i

\* one copy loop, from position i of s into buf, pos characters of which are
\* written, with the limit max; host selects ISNAMECHAR2:
\* while (*c != '\0') {
\*     if (ISNAMECHAR(*c)) { if (pos >= max) return 1; buf[pos++] = *c; } else break;
\*     c++; }
RECURSIVE CopyName(_, _, _, _, _, _)
CopyName(s, i, buf, pos, max, host) ==
    IF At(s, i) = NUL \/ ~(IF host THEN ISNAMECHAR2(At(s, i)) ELSE ISNAMECHAR(At(s, i)))
    THEN [c |-> i, buf |-> buf, pos |-> pos, full |-> FALSE]
    ELSE IF pos >= max
         THEN [c |-> i, buf |-> buf, pos |-> pos, full |-> TRUE]
         ELSE CopyName(s, i + 1, [buf EXCEPT ![pos + 1] = At(s, i)], pos + 1, max, host)

\* a loop that is not entered
NotCopied(i, buf) == [c |-> i, buf |-> buf, pos |-> 0, full |-> FALSE]

\* parse_stage_name(pair, local_name, host_name, remote_name), non-Windows build:
\* the return value and the three buffers after the call
ParseStageName(p, l, h, r) ==
    LET L == CopyName(p, SkipSpace(p, 1), l, 0, MAXPATHLEN, FALSE)
        H == IF At(p, L.c) = "@"
             THEN CopyName(p, L.c + 1, h, 0, PBS_MAXSERVERNAME, TRUE)
             ELSE NotCopied(L.c, h)
        R == IF At(p, H.c) = ":"
             THEN CopyName(p, H.c + 1, r, 0, MAXPATHLEN, FALSE)
             ELSE NotCopied(H.c, r)
        Parsed(ret, lb, hb, rb, hp, rp) ==
            [ret |-> ret, local_name |-> lb, host_name |-> hb, remote_name |-> rb,
             l_pos |-> L.pos, h_pos |-> hp, r_pos |-> rp]
    IN  IF L.full \/ L.pos = 0 THEN Parsed(1, L.buf, h, r, 0, 0)
        ELSE IF H.full \/ (At(p, L.c) = "@" /\ H.pos = 0)
             THEN Parsed(1, L.buf, H.buf, r, H.pos, 0)
        ELSE IF R.full \/ R.pos = 0 \/ At(p, R.c) # NUL
             THEN Parsed(1, L.buf, H.buf, R.buf, H.pos, R.pos)
        ELSE Parsed(0, [L.buf EXCEPT ![L.pos + 1] = NUL],
                       [H.buf EXCEPT ![H.pos + 1] = NUL],
                       [R.buf EXCEPT ![R.pos + 1] = NUL], H.pos, R.pos)

\* the call
ParseStageNameCall ==
    /\ ps_pc = "call"
    /\ LET res == ParseStageName(pair, local_name, host_name, remote_name)
       IN  /\ ps_ret' = res.ret
           /\ local_name' = res.local_name
           /\ host_name' = res.host_name
           /\ remote_name' = res.remote_name
    /\ ps_pc' = "done"
    /\ UNCHANGED <<notStage, pair>>

\* any string, and three buffers the caller allocated with room for the longest
\* name and its terminator, not yet written
InitStage ==
    /\ InitTable
    /\ IdleCred
    /\ IdleQd
    /\ IdleList
    /\ routine = "parse_stage_name"
    /\ pair \in StringsUpTo(MaxPairLen)
    /\ local_name = [i \in 1 .. (MAXPATHLEN + 1) |-> Unset]
    /\ host_name = [i \in 1 .. (PBS_MAXSERVERNAME + 1) |-> Unset]
    /\ remote_name = [i \in 1 .. (MAXPATHLEN + 1) |-> Unset]
    /\ ps_ret = NoRet
    /\ ps_pc = "call"

NextStage == ParseStageNameCall

SpecStage == InitStage /\ [][NextStage]_vars

(***************************************************************************)
(* parse_stage_list (src/lib/Libcmds/parse_stage.c) on one list            *)
(* (SpecList). Position i of the copy is the byte l[i-1] of the source;    *)
(* position 0 and below are the bytes in front of the allocated block.     *)
(***************************************************************************)
\* the characters of a list
ListChar == Char \cup {",", "\\"}

\* a pair with a short host name, and one with a host name of the greatest
\* length parse_stage_name accepts
ShortHostPair == <<"a", "@", "a", ":", "a">>
FullHostPair == <<"a", "@">> \o [i \in 1 .. PBS_MAXSERVERNAME |-> "a"] \o <<":", "a">>

\* what a list is put together from
Piece == {<<ch>> : ch \in ListChar} \cup {ShortHostPair, FullHostPair}

\* the lists of up to n pieces
RECURSIVE ListsUpTo(_)
ListsUpTo(n) ==
    IF n = 0 THEN {<<>>}
    ELSE LET shorter == ListsUpTo(n - 1)
         IN  shorter \cup {x \o pc1 : x \in shorter, pc1 \in Piece}

\* the string that starts at position i of buf
StrFrom(buf, i) ==
    LET n == CHOOSE n \in i .. (Len(buf) + 1) :
                 /\ \A j \in i .. (n - 1) : buf[j] # NUL
                 /\ n <= Len(buf) => buf[n] = NUL
    IN  SubSeq(buf, i, n - 1)

\* while (*c != '\0') { if (*c == ',' && (s != c) && *(c - 1) != '\\') break; c++; }
RECURSIVE FindComma(_, _, _)
FindComma(buf, st, i) ==
    IF At(buf, i) = NUL THEN i
    ELSE IF At(buf, i) = "," /\ st # i /\ At(buf, i - 1) # "\\" THEN i
    ELSE FindComma(buf, st, i + 1)

\* while (isspace((int) * b)) *b-- = '\0'; as far as it stays inside the copy:
\* the copy afterwards, and b (0 when the loop has left the copy)
RECURSIVE TrimBlanks(_, _)
TrimBlanks(buf, j) ==
    IF j >= 1 /\ isspace(buf[j])
    THEN TrimBlanks([buf EXCEPT ![j] = NUL], j - 1)
    ELSE [buf |-> buf, b |-> j]

\* the highest index written so far in a buffer, after a call that has stored
\* pos characters and, if it succeeded, the terminator
Top(old, pos, ret) ==
    LET new == IF ret = 0 THEN pos ELSE pos - 1
    IN  IF new > old THEN new ELSE old

\* return from parse_stage_list
ListReturn(r) ==
    /\ psl_ret' = r
    /\ psl_pc' = "done"

\* if (strlen(list) == 0) return (1);
\* if ((l = (char *)malloc(strlen(list)+1)) == NULL) { ...; return 1; }
\* memset(l, 0, strlen(list)+1); strcpy(l, list); c = l;
ParseStageListEnter ==
    /\ psl_pc = "call"
    /\ \/ Len(list) = 0 /\ ListReturn(1) /\ UNCHANGED <<psl_l, psl_c>>
       \/ Len(list) # 0 /\ ListReturn(1) /\ UNCHANGED <<psl_l, psl_c>>
       \/ /\ Len(list) # 0
          /\ psl_l' = Append(list, NUL)
          /\ psl_c' = 1
          /\ psl_pc' = "split"
          /\ UNCHANGED psl_ret
    /\ UNCHANGED <<notList, list, psl_s, psl_b, comma, psl_wr, local_name, host_name,
                   remote_name>>

\* one item is cut out of the copy:
\* while (isspace((int) * c)) c++;
\* s = c; while (*c != '\0') { ... }
\* comma = (*c == ','); *c = '\0'; b = c - 1;
\* while (isspace((int) * b)) *b-- = '\0';
\* a b that leaves the copy reads, and overwrites, the bytes in front of it: any
\* number of them can be whitespace
ParseStageListSplit ==
    /\ psl_pc = "split"
    /\ LET st == SkipSpace(psl_l, psl_c)
           e == FindComma(psl_l, st, st)
           T == TrimBlanks([psl_l EXCEPT ![e] = NUL], e - 1)
       IN  /\ psl_s' = st
           /\ psl_c' = e
           /\ comma' = IF psl_l[e] = "," THEN 1 ELSE 0
           /\ psl_l' = T.buf
           /\ IF T.b >= 1
              THEN psl_b' = T.b
              ELSE \E k \in 0 .. MaxUnder : psl_b' = 0 - k
    /\ psl_pc' = "parse"
    /\ UNCHANGED <<notList, list, psl_wr, psl_ret, local_name, host_name, remote_name>>

\* if (parse_stage_name(s, local, host, remote)) { free(l); return 1; }
\* if (strlen(local) == 0) ...; if (strlen(host) == 0) ...; if (strlen(remote) == 0) ...
\* if (comma) c++;   and the test of the outer loop
\* host has PBS_MAXSERVERNAME bytes: a terminator stored at index
\* PBS_MAXSERVERNAME lands on the byte behind it, which can be the first byte of
\* local, the first byte of remote, or a byte nothing else uses
ParseStageListParse ==
    /\ psl_pc = "parse"
    /\ LET res == ParseStageName(StrFrom(psl_l, psl_s), local_name,
                                 Append(host_name, Unset), remote_name)
           beyond == res.host_name[PBS_MAXSERVERNAME + 1] # Unset
       IN  \E hit \in IF beyond THEN {"unused", "local", "remote"} ELSE {"unused"} :
              LET lb == IF hit = "local" THEN [res.local_name EXCEPT ![1] = NUL]
                        ELSE res.local_name
                  rb == IF hit = "remote" THEN [res.remote_name EXCEPT ![1] = NUL]
                        ELSE res.remote_name
                  hb == SubSeq(res.host_name, 1, PBS_MAXSERVERNAME)
                  nc == IF comma = 1 THEN psl_c + 1 ELSE psl_c
              IN  /\ local_name' = lb
                  /\ host_name' = hb
                  /\ remote_name' = rb
                  /\ psl_wr' = [local |-> Top(psl_wr.local, res.l_pos, res.ret),
                                host |-> Top(psl_wr.host, res.h_pos, res.ret),
                                remote |-> Top(psl_wr.remote, res.r_pos, res.ret)]
                  /\ IF \/ res.ret # 0
                        \/ Len(CString(lb)) = 0
                        \/ Len(CString(hb)) = 0
                        \/ Len(CString(rb)) = 0
                     THEN ListReturn(1) /\ UNCHANGED psl_c
                     ELSE /\ psl_c' = nc
                          /\ psl_pc' = IF psl_l[nc] = NUL THEN "exit" ELSE "split"
                          /\ UNCHANGED psl_ret
    /\ UNCHANGED <<notList, list, psl_l, psl_s, psl_b, comma>>

\* if (comma) { (void)free(l); return 1; }
\* (void)free(l); return 0;
ParseStageListReturn ==
    /\ psl_pc = "exit"
    /\ ListReturn(IF comma = 1 THEN 1 ELSE 0)
    /\ UNCHANGED <<notList, list, psl_l, psl_c, psl_s, psl_b, comma, psl_wr, local_name,
                   host_name, remote_name>>

\* any list; char local[MAXPATHLEN+1] = {'\0'}; char host[PBS_MAXSERVERNAME] = {'\0'};
\* char remote[MAXPATHLEN+1] = {'\0'}; b, c, s, l are NULL and comma is 0
InitList ==
    /\ InitTable
    /\ IdleCred
    /\ IdleQd
    /\ routine = "parse_stage_list"
    /\ pair = <<>>
    /\ ps_ret = NoRet
    /\ ps_pc = "off"
    /\ list \in ListsUpTo(MaxPieces)
    /\ local_name = [i \in 1 .. (MAXPATHLEN + 1) |-> NUL]
    /\ host_name = [i \in 1 .. PBS_MAXSERVERNAME |-> NUL]
    /\ remote_name = [i \in 1 .. (MAXPATHLEN + 1) |-> NUL]
    /\ psl_l = <<>>
    /\ psl_c = 0
    /\ psl_s = 0
    /\ psl_b = 0
    /\ comma = 0
    /\ psl_wr = [local |-> -1, host |-> -1, remote |-> -1]
    /\ psl_ret = NoRet
    /\ psl_pc = "call"

NextList ==
    \/ ParseStageListEnter
    \/ ParseStageListSplit
    \/ ParseStageListParse
    \/ ParseStageListReturn

SpecList == InitList /\ [][NextList]_vars

(***************************************************************************)
(* Properties of pbs_connect2mom and the connection table (SpecConn).      *)
(***************************************************************************)
\* the steps of a call after the scan; the caller holds the table lock
PastScan == {"c_resolve", "c_socket", "c_connect", "c_setup", "c_ctx", "c_unlock", "c_err"}

\* thread t is at err: with PBSE_NOCONNECTS from the scan, about to return -1
ReportsNoConnects(t) ==
    pc[t] = "c_err" /\ call.stage = "noconnects" /\ pbs_errno[t] = PBSE_NOCONNECTS

PartialFailure == {"resolve", "nov4", "socket", "connect", "ctx"}

\* C3: a call that fails after the slot was selected and before it is fully
\* bound leaves as many free slots as it found, and no socket it opened is open
C3_PartialFailureLeaksNothing ==
    \A t \in Thread :
        pc[t] = "c_err" /\ call.stage \in PartialFailure =>
            /\ FreeCount(connection) = call.free
            /\ sd[t] \notin open_socks
            /\ connection[conn[t]].ch_inuse = 0

\* a connection-context failure, after the socket was opened and the slot bound
C3_Witness ==
    \E t \in Thread :
        pc[t] = "c_err" /\ call.stage = "ctx" /\ sd[t] \in Fds /\ call.free >= 1

\* the steps of pbs_connect2mom that resolve a name, create, connect or close a socket
IOSteps == {"c_resolve", "c_socket", "c_connect", "c_ctx"}

\* C7: no thread holds the connection-table lock at a step that does I/O
C7_NoIOUnderTableLock ==
    \A t \in Thread : pc[t] \in IOSteps => conntable_lock # t

\* C8: at its successful return the call hands out a handle >= 1 whose slot is in
\* use, holds the socket just connected, has error code 0 and no error text, with
\* the codec timeout set to the very long one; every handle handed out stays bound
\* to an open socket until it is released
C8_SuccessBindsCleanSlot ==
    /\ \A t \in Thread :
          pc[t] = "c_unlock" =>
              /\ conn[t] >= 1
              /\ connection[conn[t]] = [ch_inuse |-> 1, ch_errno |-> 0,
                                        ch_socket |-> sd[t], ch_errtxt |-> NULL]
              /\ sd[t] \in open_socks
              /\ pbs_tcp_timeout = PBS_DIS_TCP_TIMEOUT_VLONG
    /\ \A h \in owned :
          /\ h >= 1
          /\ connection[h].ch_inuse = 1
          /\ connection[h].ch_socket \in open_socks
          /\ pbs_tcp_timeout = PBS_DIS_TCP_TIMEOUT_VLONG

\* a successful call on a slot that carried the error code of an earlier use
C8_Witness ==
    \E t \in Thread : pc[t] = "c_unlock" /\ call.stale

\* C9: while the table lock is free, a slot holds an open socket descriptor
\* iff its in-use flag is set
C9_SocketOpenIffInUse ==
    conntable_lock = NoThread =>
        \A i \in Slot : (connection[i].ch_socket \in open_socks) <=> (connection[i].ch_inuse = 1)

\* C10: each failure cause has its own code in pbs_errno: PBSE_NOCONNECTS,
\* PBSE_BADHOST, and errno of the failing system call for socket() and connect()
C10_ErrorCodePerCause ==
    \A t \in Thread :
        pc[t] = "c_err" =>
            /\ call.stage = "noconnects" => pbs_errno[t] = PBSE_NOCONNECTS
            /\ call.stage \in {"resolve", "nov4"} => pbs_errno[t] = PBSE_BADHOST
            /\ call.stage \in {"socket", "connect"} => pbs_errno[t] = os_errno[t]

\* the positions between the selection of a slot and its marking as in use
Selected == {"c_resolve", "c_socket", "c_connect", "c_setup"}
\* the positions between the marking and the return of the handle
Marked == {"c_ctx", "c_unlock"}

\* C17: the slot a call has selected is the lowest-numbered free slot among
\* 1 .. NCONNECTS-1 and stays so, under the table lock, until the same call marks
\* it; the marked slot is in no caller's hands until the call returns it; a slot
\* becomes in use only by the call that selected it, and a slot in use is
\* changed only by the call that marked it or by the owner of its handle.
C17_LowestFreeSlotUnderOneHold ==
    [][/\ \A t \in Thread :
             /\ pc'[t] \in Selected =>
                    /\ conntable_lock' = t
                    /\ conn'[t] \in 1 .. (NCONNECTS - 1)
                    /\ connection'[conn'[t]].ch_inuse = 0
                    /\ \A j \in 1 .. (conn'[t] - 1) : connection'[j].ch_inuse = 1
             /\ pc'[t] \in Marked =>
                    /\ conntable_lock' = t
                    /\ conn'[t] \in 1 .. (NCONNECTS - 1)
                    /\ connection'[conn'[t]].ch_inuse = 1
                    /\ conn'[t] \notin owned'
             /\ (pc[t] = "c_unlock" /\ pc'[t] = "idle" /\ owned' # owned)
                    => (conn[t] \notin owned /\ owned' = owned \cup {conn[t]})
       /\ \A i \in Slot :
             /\ (connection[i].ch_inuse = 0 /\ connection'[i].ch_inuse = 1)
                    => \E t \in Thread : pc[t] = "c_setup" /\ conn[t] = i
             /\ (connection[i].ch_inuse = 1 /\ connection'[i] # connection[i])
                    => \/ i \in owned
                       \/ \E t \in Thread : pc[t] = "c_ctx" /\ conn[t] = i
       /\ connection'[0].ch_inuse = 0 /\ 0 \notin owned']_vars

\* a connect is about to return handle 2 while handle 1 is in a caller's hands
\* and a concurrent connect waits for the table lock
C17_Witness ==
    \E t, u \in Thread :
        /\ pc[t] = "c_unlock" /\ conn[t] = 2
        /\ 1 \in owned
        /\ pc[u] = "c_lock"

(***************************************************************************)
(* Properties of pbs_defschreply (SpecDef)                                 *)
(***************************************************************************)

\* the positions at which a thread holds the slot lock of its handle
InExchange == {"d_hdr", "d_body", "d_flush", "d_read"}

\* the positions from which the encode and flush failures return
Sending == {"d_hdr", "d_body", "d_flush"}

\* thread t returns from an encode or flush failure in this step
SendFailed(t) == pc[t] \in Sending /\ pc'[t] = "idle"

\* C1: two calls that use the same handle never interleave their reads and
\* writes on its socket: the operations of one call form one block of the
\* socket's log, so no call appears in it twice.
C1_SameHandleCallsDoNotInterleave ==
    \A f \in DOMAIN wire :
        \A i, j \in 1 .. Len(wire[f]) : i # j => wire[f][i] # wire[f][j]

\* a thread waits for the slot lock of a handle while the call of another
\* thread has written to the socket of the same handle
C1_Witness ==
    \E t1, t2 \in Thread :
        /\ t1 # t2
        /\ c[t1] = c[t2]
        /\ pc[t1] = "d_lock"
        /\ pc[t2] \in InExchange
        /\ wire[sock[t2]] # <<>>

\* C4: a NULL or empty job id is refused with PBSE_IVALREQ, in pbs_errno and
\* as the return value, and the call writes nothing, takes no lock and leaves
\* the slot as it was.
C4_InvalidIdRefusedUntouched ==
    [][\A t \in Thread :
          (pc[t] = "d_entry" /\ id[t] \in {NULL, ""} /\ pc'[t] # "d_entry")
              => /\ pc'[t] = "idle"
                 /\ dlast' = [stage |-> "ivalreq", ret |-> PBSE_IVALREQ, err |-> 0, ops |-> <<>>]
                 /\ pbs_errno'[t] = PBSE_IVALREQ
                 /\ UNCHANGED <<wire, ch_mutex, connection>>]_vars

C4_Witness == dlast.stage = "ivalreq" /\ \E t \in Thread : pbs_errno[t] = PBSE_IVALREQ

\* C5 as stated: a call abandoned at an encode or flush failure returns
\* PBSE_PROTOCOL.
C5_SendFailureReturnsProtocol ==
    dlast.stage \in {"encode", "flush"} => dlast.ret = PBSE_PROTOCOL

\* C5 amended: a call abandoned at an encode or flush failure reads no reply,
\* gives up the slot lock and returns pbs_errno, which is PBSE_PROTOCOL or
\* PBSE_SYSTEM; it is PBSE_SYSTEM whenever the error text could not be copied.
C5_SendFailureUnlocksAndReturnsErrno ==
    [][\A t \in Thread :
          SendFailed(t)
              => /\ ch_mutex'[c[t]] = NoThread
                 /\ dlast'.stage \in {"encode", "flush"}
                 /\ dlast'.ret = pbs_errno'[t]
                 /\ dlast'.ret \in {PBSE_PROTOCOL, PBSE_SYSTEM}
                 /\ connection'[c[t]].ch_errno = connection[c[t]].ch_errno
                 /\ (pc[t] # "d_flush" /\ connection'[c[t]].ch_errtxt = NULL)
                        => dlast'.ret = PBSE_SYSTEM]_vars

C5_Witness ==
    /\ dlast.stage \in {"encode", "flush"}
    /\ dlast.ret = PBSE_SYSTEM
    /\ \A i \in Slot : ch_mutex[i] = NoThread

\* C6: after an encode or flush failure the slot's error text is the message
\* of that failure: it is never absent and never the text of an earlier call.
C6_SendFailureSetsErrorText ==
    [][\A t \in Thread :
          SendFailed(t)
              => /\ connection'[c[t]].ch_errtxt # NULL
                 /\ pc[t] = "d_flush"
                        => connection'[c[t]].ch_errtxt # connection[c[t]].ch_errtxt]_vars

\* the wire operations of a request with text argument x, in the order of C11
RequestOps(x) ==
    <<"ReqHdr", "cmd", "id", "err">>
        \o (IF x # NULL /\ x # "" THEN <<"has_txt=1", x>> ELSE <<"has_txt=0">>)
        \o <<"ReqExtend">>

\* the text arguments the calls are made with
TxtArgs == {NULL, "", "msg"}

\* C11: a call in which no encode step and no flush fails puts on the wire, once
\* each and in this order: header, command, job id, error number, text flag, the
\* text iff txt is neither NULL nor empty, the extension, the flush and then one
\* reply read; nothing follows the flush but the read.
C11_ExchangeOrder ==
    /\ \A t \in Thread :
          /\ pc[t] = "d_flush" => \E x \in TxtArgs : ops[t] = RequestOps(x)
          /\ pc[t] = "d_read" => \E x \in TxtArgs : ops[t] = RequestOps(x) \o <<"wflush">>
    /\ dlast.stage \in {"read", "eof", "unlock"} =>
          \E x \in TxtArgs : dlast.ops = RequestOps(x) \o <<"wflush", "rdrpy">>

\* an exchange with a text has completed with status 0
C11_Witness ==
    /\ dlast.stage = "read"
    /\ dlast.ret = 0
    /\ dlast.ops = RequestOps("msg") \o <<"wflush", "rdrpy">>

\* thread t returns from the reply read, the request fully encoded and flushed
ReplyReturn(t) == pc[t] = "d_read" /\ pc'[t] = "idle"

\* C12 as stated: once the request is flushed the call returns the error code
\* the reply read recorded on the slot.
C12_ReturnsRecordedCode ==
    [][\A t \in Thread :
          ReplyReturn(t) => dlast'.ret = connection'[c[t]].ch_errno]_vars

\* C12 amended: once the request is flushed the call returns the error code the
\* reply read recorded on the slot, unless the final unlock fails: then it returns
\* pbs_errno, which is not 0. It returns 0 only if the recorded code is 0; when
\* the peer closed the socket before replying both the return value and the
\* recorded code are nonzero; the slot stays in use on its open socket.
C12_ReturnsRecordedCodeOrUnlockError ==
    [][\A t \in Thread :
          ReplyReturn(t)
              => /\ IF dlast'.stage = "unlock"
                    THEN dlast'.ret = pbs_errno'[t] /\ dlast'.ret # 0
                    ELSE dlast'.ret = connection'[c[t]].ch_errno
                 /\ dlast'.ret = 0 => connection'[c[t]].ch_errno = 0
                 /\ dlast'.stage = "eof"
                        => dlast'.ret # 0 /\ connection'[c[t]].ch_errno # 0
                 /\ connection'[c[t]].ch_inuse = 1
                 /\ connection'[c[t]].ch_socket = connection[c[t]].ch_socket
                 /\ connection'[c[t]].ch_socket \in open_socks']_vars

\* the peer closed the socket before replying: the call returned PBSE_PROTOCOL
\* and a slot carries it
C12_Witness ==
    /\ dlast.stage = "eof"
    /\ dlast.ret = PBSE_PROTOCOL
    /\ \E i \in Slot : connection[i].ch_inuse = 1 /\ connection[i].ch_errno = PBSE_PROTOCOL

ReadRc(item, k) ==
    IF item.kind = k THEN DIS_SUCCESS ELSE IF item.kind = "bad" THEN item.err ELSE DIS_PROTO

\* C14: the routine reads the credential type and then one counted string and
\* nothing else; it returns DIS_SUCCESS iff both reads succeed, and then rq_type,
\* rq_data and rq_size are what the reads produced: a payload of length 0 is a
\* success with an empty, non-null buffer. If the type read fails the string is
\* not read, rq_data is null and the type read's code is returned.
C14_JobCredDecode ==
    jc_pc = "jc_done" =>
        LET rcType == ReadRc(jc_stream[1], "uint")
            rcData == ReadRc(jc_stream[2], "cs")
        IN  /\ jc_ret = DIS_SUCCESS <=> (rcType = DIS_SUCCESS /\ rcData = DIS_SUCCESS)
            /\ jc_ret = DIS_SUCCESS =>
                  /\ jc_reads = <<"disrui", "disrcs">>
                  /\ preq = [rq_type |-> jc_stream[1].val,
                             rq_data |-> [null |-> FALSE, bytes |-> jc_stream[2].data],
                             rq_size |-> Len(jc_stream[2].data)]
            /\ rcType # DIS_SUCCESS =>
                  /\ jc_reads = <<"disrui">>
                  /\ preq.rq_data.null
                  /\ jc_ret = rcType
            /\ (rcType = DIS_SUCCESS /\ rcData # DIS_SUCCESS) =>
                  /\ jc_reads = <<"disrui", "disrcs">>
                  /\ jc_ret = rcData

\* a credential with a declared length of 0 was decoded
C14_Witness ==
    /\ jc_pc = "jc_done"
    /\ jc_ret = DIS_SUCCESS
    /\ preq.rq_size = 0
    /\ preq.rq_data = [null |-> FALSE, bytes |-> <<>>]

(***************************************************************************)
(* Further properties of pbs_defschreply (SpecDef)                         *)
(***************************************************************************)
\* C15: when an encode step fails with codec error e, the text attached to the
\* slot is the message of that same error, dis_emsg[e], whichever step failed.
C15_MessageOfFailingCode ==
    [][\A t \in Thread :
          (pc[t] \in {"d_hdr", "d_body"} /\ pc'[t] = "idle"
               /\ connection'[c[t]].ch_errtxt # NULL)
              => connection'[c[t]].ch_errtxt = DisEmsg(dlast'.err)]_vars

(***************************************************************************)
(* Properties common to pbs_connect2mom and pbs_defschreply (SpecLib)      *)
(***************************************************************************)

\* the positions at which a thread holds the connection-table lock
TableLockHeld == {"c_scan", "c_resolve", "c_socket", "c_connect", "c_setup", "c_ctx",
                  "c_unlock", "c_err"}

\* C16: a thread holds the table lock, or the lock of a slot, exactly from the
\* step that acquires it to its return: a lock is taken only when free, it is
\* given up only by its holder and only in the step in which the holder
\* returns, and a thread that never acquired a lock gives none up.
C16_LocksReleasedOnReturn ==
    [][\A t \in Thread :
          /\ (conntable_lock' = t) <=> (pc'[t] \in TableLockHeld)
          /\ \A i \in Slot : (ch_mutex'[i] = t) <=> (pc'[t] \in InExchange /\ c'[t] = i)
          /\ (conntable_lock # t /\ conntable_lock' = t) => conntable_lock = NoThread
          /\ (conntable_lock = t /\ conntable_lock' # t)
                 => (pc'[t] = "idle" /\ conntable_lock' = NoThread)
          /\ \A i \in Slot :
                 /\ (ch_mutex[i] # t /\ ch_mutex'[i] = t) => ch_mutex[i] = NoThread
                 /\ (ch_mutex[i] = t /\ ch_mutex'[i] # t)
                        => (pc'[t] = "idle" /\ ch_mutex'[i] = NoThread)]_vars

\* a connect has failed after taking the table lock, or a reply exchange has
\* failed after taking the slot lock; every thread is back and no lock is held
C16_Witness ==
    /\ \A t \in Thread : pc[t] = "idle"
    /\ conntable_lock = NoThread
    /\ \A i \in Slot : ch_mutex[i] = NoThread
    /\ \/ routine = "pbs_connect2mom" /\ \E t \in Thread : pbs_errno[t] = PBSE_BADHOST
       \/ routine = "pbs_defschreply" /\ dlast.stage = "encode"

(***************************************************************************)
(* Further properties of pbs_connect2mom (SpecConn)                        *)
(***************************************************************************)

\* C18: a call that returns -1 after it took the table lock leaves as many free
\* slots as it found when it took the lock, and the socket it opened, if any, is
\* closed: the caller that receives -1 owns no connection.
C18_FailedConnectOwnsNothing ==
    [][\A t \in Thread :
          (pc[t] \in TableLockHeld /\ pc'[t] = "idle" /\ owned' = owned)
              => /\ FreeCount(connection') = call.free
                 /\ sd[t] \notin open_socks']_vars

(***************************************************************************)
(* Properties of qdisable (SpecQd)                                         *)
(***************************************************************************)

\* the positions in qd_log of the calls of op
CallsOf(op) == {k \in 1 .. Len(qd_log) : qd_log[k].op = op}

\* the indices of the well-formed destinations of the command line
WellFormed == {i \in 1 .. (argc - 1) : ParseDestinationId(Arg(i)) = 0}

\* C19: pbs_manager is called only on the positive handle the preceding
\* cnt2server returned; a successful connect is followed by the manager call and
\* then by one pbs_disconnect of its handle, whatever the manager call returned;
\* a failed connect is followed by no call on a handle; and when main exits after
\* its loop, every well-formed destination was connected to and no connection
\* is open.
C19_ConnectManageDisconnect ==
    /\ \A k \in CallsOf("pbs_manager") :
          /\ qd_log[k].ct > 0
          /\ k > 1 /\ qd_log[k - 1] = LibCall("cnt2server", qd_log[k].ct)
    /\ \A k \in CallsOf("pbs_disconnect") :
          /\ k > 2
          /\ qd_log[k - 1] = LibCall("pbs_manager", qd_log[k].ct)
          /\ qd_log[k - 2] = LibCall("cnt2server", qd_log[k].ct)
    /\ \A k \in CallsOf("cnt2server") :
          IF qd_log[k].ct > 0
          THEN /\ k + 1 <= Len(qd_log) => qd_log[k + 1] = LibCall("pbs_manager", qd_log[k].ct)
               /\ k + 2 <= Len(qd_log) => qd_log[k + 2] = LibCall("pbs_disconnect", qd_log[k].ct)
               /\ k + 2 > Len(qd_log) => qd_open = {qd_log[k].ct}
          ELSE k + 1 <= Len(qd_log) => qd_log[k + 1].op = "cnt2server"
    /\ qd_pc \in {"main", "loop", "execute", "exited"} => qd_open = {}
    /\ (qd_pc = "exited" /\ dest >= 1) =>
          /\ dest = argc
          /\ Cardinality(CallsOf("cnt2server")) = Cardinality(WellFormed)
          /\ Cardinality(CallsOf("pbs_disconnect"))
                 = Cardinality({k \in CallsOf("cnt2server") : qd_log[k].ct > 0})

\* the command has exited after a destination it could not connect to and a
\* later one whose request it sent
C19_Witness ==
    /\ qd_pc = "exited"
    /\ exitstatus = 2
    /\ \E j, k \in CallsOf("cnt2server") : j < k /\ qd_log[j].ct <= 0 /\ qd_log[k].ct > 0
    /\ CallsOf("pbs_disconnect") # {}

(***************************************************************************)
(* Properties of parse_stage_name (SpecStage)                              *)
(***************************************************************************)

\* the position of the first character of s after its leading whitespace
AfterLeadingSpace(s) ==
    CHOOSE k \in 1 .. (Len(s) + 1) :
        /\ \A j \in 1 .. (k - 1) : isspace(s[j])
        /\ k <= Len(s) => ~isspace(s[k])

\* s from position k on is local@host:remote with the '@' at a and the ':' at b
IsStagePair(s, k, a, b) ==
    /\ k < a /\ a + 1 < b /\ b < Len(s)
    /\ s[a] = "@" /\ s[b] = ":"
    /\ a - k <= MAXPATHLEN /\ b - a - 1 <= PBS_MAXSERVERNAME /\ Len(s) - b <= MAXPATHLEN
    /\ \A j \in (k .. (a - 1)) \cup ((b + 1) .. Len(s)) :
          (isprint(s[j]) \/ isspace(s[j])) /\ s[j] # "@"
    /\ \A j \in (a + 1) .. (b - 1) :
          isprint(s[j]) /\ ~isspace(s[j]) /\ s[j] \notin {"@", ":"}

TrimEnd(x) ==
    LET n == CHOOSE n \in 0 .. Len(x) :
                 /\ \A j \in (n + 1) .. Len(x) : isspace(x[j])
                 /\ n >= 1 => ~isspace(x[n])
    IN  SubSeq(x, 1, n)

\* the items of the list x from position i on: an item ends at the first comma
\* that is not preceded by a backslash and is not the first character of the
\* item after its leading whitespace
RECURSIVE ItemsFrom(_, _)
ItemsFrom(x, i) ==
    LET rest == SubSeq(x, i, Len(x))
        first == i - 1 + AfterLeadingSpace(rest)
        seps == {j \in (first + 1) .. Len(x) : x[j] = "," /\ x[j - 1] # "\\"}
    IN  IF seps = {} THEN <<rest>>
        ELSE LET j == CHOOSE j \in seps : \A m \in seps : j <= m
             IN  <<SubSeq(x, i, j - 1)>> \o ItemsFrom(x, j + 1)

\* the item, without the whitespace around it, is local@host:remote
ValidItem(item) ==
    LET t == TrimEnd(item)
    IN  \E a, b \in 1 .. Len(t) : IsStagePair(t, AfterLeadingSpace(t), a, b)

\* the list is not empty and each of its items is valid; a list that ends with
\* a separator has an empty last item
ValidList(x) ==
    /\ x # <<>>
    /\ \A n \in 1 .. Len(ItemsFrom(x, 1)) : ValidItem(ItemsFrom(x, 1)[n])

\* C21: a call that could allocate its copy returns 0 iff the list is not empty
\* and every item between separator commas is, without the whitespace around
\* it, a valid local@host:remote pair, the last item included; every other
\* list, and the empty list, returns 1.
C21_ListGrammar ==
    psl_pc = "done" =>
        /\ psl_ret \in {0, 1}
        /\ list = <<>> => psl_ret = 1
        /\ psl_l # <<>> => (psl_ret = 0 <=> ValidList(list))

\* C22: every index at which a call has written local, host and remote is
\* inside the array: at most MAXPATHLEN in local and remote, which have
\* MAXPATHLEN+1 bytes, and at most PBS_MAXSERVERNAME-1 in host, which has
\* PBS_MAXSERVERNAME bytes; the terminators are among the writes.
C22_WritesInsideBuffers ==
    /\ psl_wr.local <= MAXPATHLEN
    /\ psl_wr.host <= PBS_MAXSERVERNAME - 1
    /\ psl_wr.remote <= MAXPATHLEN

\* C23: after the trailing blanks of an item are trimmed, the trimming pointer
\* is at a position of the copy: it has read and written no byte in front of
\* the first one.
C23_TrimmingInsideCopy ==
    psl_pc = "parse" => psl_b >= 1
====
